---- MODULE Spec2Model ----
(***************************************************************************)
(* Model of the game-lookup script of ObsidianScripts: the Twitch token    *)
(* cache (fetchNewToken, getToken) and its caller fetchGameById / main.    *)
(* JavaScript values are modelled with their dynamic kind, so that the     *)
(* comparisons, additions and JSON conversions of the code behave as the   *)
(* language defines them.                                                  *)
(***************************************************************************)
EXTENDS Integers, Sequences, FiniteSets, TLC

(* ------------------------------ bounds --------------------------------- *)
\* Last clock tick explored.
MaxClock == 5
\* Largest expires_in (seconds) the token endpoint answers.
MaxExpiresIn == 1
\* Number of script runs explored, one after the other.
MaxRuns == 2
\* Largest media type entered at the prompt of add_series_movies.
MaxMediaType == 4

\* Date.now() is finer than the second the code rounds it down to: the
\* model's clock counts ticks, TicksPerSecond of them to a second.
TicksPerSecond == 2

\* Script processes.  Spec runs process 1 alone, again and again.
Procs == {1, 2}
SeqProcs == {1}

(* -------------------------- JavaScript values -------------------------- *)
\* k: "num" | "nan" | "undef" | "null" | "str" (text t, not numeric)
\*    | "numstr" (the string of the decimal digits of n)
Num(n) == [k |-> "num", n |-> n, t |-> ""]
NaN == [k |-> "nan", n |-> 0, t |-> ""]
Undefined == [k |-> "undef", n |-> 0, t |-> ""]
Null == [k |-> "null", n |-> 0, t |-> ""]
Str(s) == [k |-> "str", n |-> 0, t |-> s]
NumStr(n) == [k |-> "numstr", n |-> n, t |-> ""]

IsString(v) == v.k \in {"str", "numstr"}

\* ToNumber of the language: null is 0, a string of digits is its value,
\* undefined and any other string are NaN.
ToNumber(v) ==
    CASE v.k = "num" -> v
      [] v.k = "numstr" -> Num(v.n)
      [] v.k = "null" -> Num(0)
      [] OTHER -> NaN

RECURSIVE NumDigits(_)
NumDigits(n) == IF n < 10 THEN 1 ELSE 1 + NumDigits(n \div 10)

RECURSIVE Pow10(_)
Pow10(d) == IF d = 0 THEN 1 ELSE 10 * Pow10(d - 1)

\* a > b of the language, for a number b: a is converted to a number and
\* every comparison with NaN is false.
JsGreater(a, b) ==
    LET na == ToNumber(a) IN na.k = "num" /\ na.n > b

\* a + b of the language, for a number a: string concatenation when b is a
\* string, numeric addition otherwise.
JsAdd(a, b) ==
    CASE b.k = "numstr" -> NumStr(a * Pow10(NumDigits(b.n)) + b.n)
      [] b.k = "str" -> Str(ToString(a) \o b.t)
      [] OTHER -> LET nb == ToNumber(b) IN
                  IF nb.k = "nan" THEN NaN ELSE Num(a + nb.n)

\* !v of the language.
Falsy(v) ==
    \/ v.k \in {"undef", "null", "nan"}
    \/ v.k = "num" /\ v.n = 0
    \/ v.k = "str" /\ v.t = ""

\* What JSON.parse(JSON.stringify(v)) gives for the value of a key: NaN is
\* written as null; a key holding undefined is left out and reads back as
\* undefined.
JsonValue(v) == IF v.k = "nan" THEN Null ELSE v

(* ---------------------------- the cache file --------------------------- *)
\* tokenTwitch.json: absent, unparseable, or a parsed record.
NoFile == [kind |-> "absent", access_token |-> Undefined, expires_at |-> Undefined]
CorruptFile == [kind |-> "corrupt", access_token |-> Undefined, expires_at |-> Undefined]
Record(tok, exp) == [kind |-> "record", access_token |-> tok, expires_at |-> exp]

\* Contents the file may have when the first run starts.
InitialFiles ==
    {NoFile, CorruptFile, Record(Str("tok1"), Undefined), Record(Str("tok1"), NumStr(9))}

(* --------------------------- the token endpoint ------------------------ *)
Tokens == {Str("abc"), Str("tok1")}
\* Bodies of a 2xx answer of the token endpoint.
Bodies ==
    [access_token : Tokens \cup {Undefined},
     expires_in : {Num(e) : e \in 0..MaxExpiresIn} \cup {Undefined, NumStr(MaxExpiresIn)}]
\* A body as section 6 of the spec describes it.
WellFormed(body) == body.access_token.k = "str" /\ body.expires_in.k = "num"
\* What a non-2xx answer carries instead of a token.
NoBody == [access_token |-> Undefined, expires_in |-> Undefined]
\* Answers to the credential exchange: 2xx with a body, an HTTP error status,
\* or no answer at all (network error).
Answers ==
    {[status |-> "200", body |-> b] : b \in Bodies}
        \cup {[status |-> st, body |-> NoBody] : st \in {"401", "network"}}


(* ------------------------------- state --------------------------------- *)
VARIABLES
    clock,      \* Date.now(), in ticks
    tokenFile,  \* content of TOKEN_FILE
    fileMeta,   \* where the token of TOKEN_FILE comes from, as the endpoint knows it
    runs,       \* script runs started so far
    pc,         \* per process: where the script is
    gt,         \* per process: the getToken invocation and what it observed
    sc          \* per process: fetchGameById / main beyond getToken

vars == <<clock, tokenFile, fileMeta, runs, pc, gt, sc>>

\* Outcome of a call: a returned value or a thrown error.
Pending == [kind |-> "pending", v |-> Undefined, err |-> "none"]
Returned(v) == [kind |-> "value", v |-> v, err |-> "none"]
Thrown(e) == [kind |-> "error", v |-> Undefined, err |-> e]

\* The token of the file was not issued to a run of the script.
NoMeta == [writer |-> 0, deadline |-> -1, token |-> Undefined, expiry |-> -1]
\* The token tok of the file was issued to run w, is valid at the endpoint
\* until the clock reaches d, and was stored with the expiry (seconds) e.
Meta(w, d, tok, e) == [writer |-> w, deadline |-> d, token |-> tok, expiry |-> e]

GtInit ==
    [run |-> 0,             \* which run of the script this is
     read |-> FALSE,        \* lines 50-57 have run
     reads |-> 0,           \* readFileSync calls on TOKEN_FILE
     writes |-> 0,          \* writeFileSync calls on TOKEN_FILE
     seen |-> NoFile,       \* the file as lines 50-51 read it
     seenMeta |-> NoMeta,   \* where the token of that file came from
     nowRead |-> 0,         \* the time of that read, in seconds
     hit |-> FALSE,         \* line 55 returned the saved token
     requests |-> 0,        \* requests sent to the token endpoint
     status |-> "none",     \* status of the endpoint's answer
     issuedAt |-> 0,        \* clock when the endpoint answered
     data |-> NoBody,       \* what fetchNewToken returned (line 60)
     expAt |-> Undefined,   \* expires_at that goes with the returned token
     result |-> Pending,    \* what getToken gave its caller
     retClock |-> 0]        \* clock when getToken returned

\* The scripts of the repository: add_games, add_books, add_series_movies,
\* add_mangas, add_lightnovels.
Scripts == {"game", "book", "media", "manga", "lightnovel"}

ScInit ==
    [script |-> "none",     \* which script runs
     mediaType |-> 0,       \* add_series_movies: the media type entered
     isManga |-> TRUE,      \* add_mangas: answer to "Is this a manga?"
     answer |-> "none",     \* confirmation prompt: none | yes | no
     coverDir |-> "none",   \* directory the cover was written to
     noteDir |-> "none",    \* directory the note was written to
     tag |-> "none",        \* first tag of the note
     noteCover |-> "none",  \* cover file the note refers to
     igdbRequests |-> 0,    \* requests sent to api.igdb.com
     auth |-> Undefined,    \* Authorization header of the IGDB request
     exitCode |-> -1,       \* process.exit status, -1 while none
     game |-> "none",       \* kind of the metadata answer
     cover |-> "none",      \* cover image: none | written | failed
     note |-> "none"]       \* Markdown note: none | written | failed

Init ==
    /\ clock = TicksPerSecond
    /\ tokenFile \in InitialFiles
    /\ fileMeta = NoMeta
    /\ runs = 0
    /\ pc = [p \in Procs |-> "idle"]
    /\ gt = [p \in Procs |-> GtInit]
    /\ sc = [p \in Procs |-> ScInit]

(* ------------------------- getToken's pieces --------------------------- *)
\* Math.floor(Date.now() / 1000)
NowSeconds(c) == c \div TicksPerSecond

\* JSON.parse(fs.readFileSync(TOKEN_FILE, 'utf-8')) throws a SyntaxError.
ParseNeverFails(file) == FALSE
ParseFails(file) == file.kind = "corrupt"

\* saved.expires_at > now
CacheHitNever(saved, now) == FALSE
CacheHitInclusive(saved, now) ==
    LET na == ToNumber(saved.expires_at) IN na.k = "num" /\ na.n >= now
CacheHit(saved, now) == JsGreater(saved.expires_at, now)

\* axios.post rejects on a network error and on every non-2xx status.
AxiosAcceptsAll(answer) == FALSE
AxiosRejects(answer) == answer.status # "200"

\* Math.floor(Date.now() / 1000) + data.expires_in
ExpiresInAlone(now, data) == JsonValue(ToNumber(data.expires_in))
ComputeExpiresAt(now, data) == JsAdd(now, data.expires_in)

\* The file after writeFileSync(TOKEN_FILE, JSON.stringify({access_token,
\* expires_at}, null, 4)): the prior content is gone.
FileNotWritten(file, data, expires_at) == file
FileAfterSave(file, data, expires_at) ==
    Record(JsonValue(data.access_token), JsonValue(expires_at))

\* The clock at which the endpoint stops accepting a token it issued at
\* clock `at` with the lifetime expires_in of `data` (seconds); -1 when the
\* answer states no lifetime.
TokenDeadline(at, data) ==
    IF data.expires_in.k = "num"
    THEN at + data.expires_in.n * TicksPerSecond
    ELSE -1

\* The second from which a token stored at second `now` is no longer to be
\* used, for the lifetime expires_in of `data`; -1 when the answer states none.
StoredExpiry(now, data) ==
    IF data.expires_in.k = "num" THEN now + data.expires_in.n ELSE -1

\* catch (error) { console.error(...); return null; }
GetTokenRethrow(error) == Thrown(error)
GetTokenCatch(error) == Returned(Null)

\* `${v}` of the language.
TemplateString(v) ==
    CASE v.k = "str" -> v.t
      [] v.k \in {"num", "numstr"} -> ToString(v.n)
      [] v.k = "undef" -> "undefined"
      [] v.k = "null" -> "null"
      [] OTHER -> "NaN"

\* "Authorization": `Bearer ${token}`
RawTokenHeader(token) == token
BearerHeader(token) == Str("Bearer " \o TemplateString(token))

\* if (!confirm.value) { process.exit(0); }
NeverDeclined(yes) == FALSE
Declined(yes) == ~yes

\* Where a script goes after a failed downloadImage: its catch logs the
\* error and returns, so the caller goes on to the note.
AbortAfterDownloadError == "done"
AfterDownloadError == "markdown"

\* Numbers the media type prompt of add_series_movies accepts: it has no
\* minimum, maximum or validation.
MediaTypes == 0..MaxMediaType

\* main of add_series_movies: media_type.value == 1 ? fetchMovieById : fetchSerieById
FetchesMovie(m) == m = 1

\* Directory downloadImage writes the cover to.
CoverDir(script, m) ==
    CASE script = "game" -> "../Attachments/game_covers"
      [] script = "book" -> "../Attachments/book_covers"
      [] script = "manga" -> "../Attachments/manga_covers"
      [] script = "lightnovel" -> "../Attachments/ln_covers"
      [] OTHER -> IF FetchesMovie(m) THEN "../Attachments/movie_covers"
                  ELSE IF m = 3 THEN "../Attachments/anime_covers"
                  ELSE "../Attachments/serie_covers"

\* Directory createMarkdownFile writes the note to.
NoteDir(script, m) ==
    CASE script = "game" -> "../Library/Games"
      [] script = "book" -> "../Library/Books"
      [] script = "manga" -> "../Manga"
      [] script = "lightnovel" -> "../Light_Novels"
      [] OTHER -> IF m = 1 THEN "../Library/Movies"
                  ELSE IF m = 2 THEN "../Library/Series"
                  ELSE "../Library/Animes"

\* First tag generateMarkdown puts in the note.
NoteTag(script, m, isManga) ==
    CASE script = "game" -> "game"
      [] script = "book" -> "book"
      [] script = "manga" -> IF isManga THEN "manga" ELSE "manhwa"
      [] script = "lightnovel" -> "lightnovel"
      [] OTHER -> IF m = 1 THEN "movie" ELSE IF m = 2 THEN "serie" ELSE "anime"

\* cover: "[[${slug}.jpg]]" of generateMarkdown
NoteCoverRef == "slug.jpg"

\* if (!token) of fetchGameById
TokenNeverMissing(token) == FALSE
TokenMissing(token) == Falsy(token)

(* ------------------------------ actions -------------------------------- *)
\* Time passes.
Tick ==
    /\ clock < MaxClock
    /\ clock' = clock + 1
    /\ UNCHANGED <<tokenFile, fileMeta, runs, pc, gt, sc>>

\* A script run starts: main reads the IGDB id and calls fetchGameById,
\* which calls getToken first.
StartScript(p) ==
    /\ pc[p] \in {"idle", "done", "exited"}
    /\ runs < MaxRuns
    /\ runs' = runs + 1
    /\ pc' = [pc EXCEPT ![p] = "getToken"]
    /\ gt' = [gt EXCEPT ![p] = [GtInit EXCEPT !.run = runs + 1]]
    /\ sc' = [sc EXCEPT ![p] = [ScInit EXCEPT !.script = "game"]]
    /\ UNCHANGED <<clock, tokenFile, fileMeta>>

\* getToken up to its first await: the file is looked up, read, parsed and
\* tested.  A file that does not parse throws into getToken's catch.
GetTokenRead(p) ==
    /\ pc[p] = "getToken"
    /\ LET now == NowSeconds(clock)
           seenGt == [gt[p] EXCEPT !.read = TRUE, !.seen = tokenFile,
                                   !.reads = IF tokenFile.kind = "absent" THEN @ ELSE @ + 1,
                                   !.seenMeta = fileMeta, !.nowRead = now]
       IN
       CASE ParseFails(tokenFile) ->
                /\ gt' = [gt EXCEPT ![p] = [seenGt EXCEPT
                            !.result = GetTokenCatch("SyntaxError"),
                            !.retClock = clock]]
                /\ pc' = [pc EXCEPT ![p] = "gotToken"]
         [] tokenFile.kind = "record" /\ CacheHit(tokenFile, now) ->
                /\ gt' = [gt EXCEPT ![p] = [seenGt EXCEPT
                            !.hit = TRUE,
                            !.expAt = tokenFile.expires_at,
                            !.result = Returned(tokenFile.access_token),
                            !.retClock = clock]]
                /\ pc' = [pc EXCEPT ![p] = "gotToken"]
         [] OTHER ->
                /\ gt' = [gt EXCEPT ![p] = seenGt]
                /\ pc' = [pc EXCEPT ![p] = "exchange"]
    /\ UNCHANGED <<clock, tokenFile, fileMeta, runs, sc>>

\* fetchNewToken sends the POST to id.twitch.tv.
FetchNewTokenSend(p) ==
    /\ pc[p] = "exchange"
    /\ gt' = [gt EXCEPT ![p].requests = @ + 1]
    /\ pc' = [pc EXCEPT ![p] = "awaitExchange"]
    /\ UNCHANGED <<clock, tokenFile, fileMeta, runs, sc>>

\* The endpoint's answer arrives.  A rejected request is logged and thrown
\* again by fetchNewToken, then caught by getToken; an accepted one gives
\* response.data to getToken.
FetchNewTokenAnswer(p, answer) ==
    /\ pc[p] = "awaitExchange"
    /\ IF AxiosRejects(answer)
       THEN /\ gt' = [gt EXCEPT ![p] = [gt[p] EXCEPT
                        !.status = answer.status,
                        !.result = GetTokenCatch(answer.status),
                        !.retClock = clock]]
            /\ pc' = [pc EXCEPT ![p] = "gotToken"]
       ELSE /\ gt' = [gt EXCEPT ![p] = [gt[p] EXCEPT
                        !.status = answer.status,
                        !.issuedAt = clock,
                        !.data = answer.body]]
            /\ pc' = [pc EXCEPT ![p] = "save"]
    /\ UNCHANGED <<clock, tokenFile, fileMeta, runs, sc>>

\* getToken after the await: expires_at is computed, the file is written and
\* the new token returned.
GetTokenSave(p) ==
    /\ pc[p] = "save"
    /\ LET now == NowSeconds(clock)
           expires_at == ComputeExpiresAt(now, gt[p].data)
       IN
       /\ tokenFile' = FileAfterSave(tokenFile, gt[p].data, expires_at)
       /\ fileMeta' = Meta(gt[p].run, TokenDeadline(gt[p].issuedAt, gt[p].data),
                            gt[p].data.access_token, StoredExpiry(now, gt[p].data))
       /\ gt' = [gt EXCEPT ![p] = [gt[p] EXCEPT
                    !.expAt = expires_at,
                    !.writes = @ + 1,
                    !.result = Returned(gt[p].data.access_token),
                    !.retClock = clock]]
    /\ pc' = [pc EXCEPT ![p] = "gotToken"]
    /\ UNCHANGED <<clock, runs, sc>>

\* fetchGameById with getToken's outcome: without a token the process exits
\* with status 1, with one the IGDB request is sent.  An error thrown by
\* getToken would land in fetchGameById's catch, which returns null to main.
FetchGameRequest(p) ==
    /\ pc[p] = "gotToken"
    /\ CASE gt[p].result.kind = "error" ->
                /\ pc' = [pc EXCEPT ![p] = "done"]
                /\ sc' = sc
         [] gt[p].result.kind = "value" /\ TokenMissing(gt[p].result.v) ->
                /\ pc' = [pc EXCEPT ![p] = "exited"]
                /\ sc' = [sc EXCEPT ![p].exitCode = 1]
         [] OTHER ->
                /\ pc' = [pc EXCEPT ![p] = "awaitIgdb"]
                /\ sc' = [sc EXCEPT ![p] = [sc[p] EXCEPT
                            !.igdbRequests = @ + 1,
                            !.auth = BearerHeader(gt[p].result.v)]]
    /\ UNCHANGED <<clock, tokenFile, fileMeta, runs, gt>>

\* Kinds of IGDB answers: a game with a cover url, a game whose cover has no
\* url, a game without cover, an empty list, an HTTP or network error.
IgdbAnswers == {"game", "gameNoCoverUrl", "gameNoCover", "noGame", "error"}

\* The IGDB answer arrives.  An error, or an empty list (reading .name of
\* undefined throws), ends in the catch: fetchGameById returns null and main
\* reports it.
IgdbAnswer(p, kind) ==
    /\ pc[p] = "awaitIgdb"
    /\ sc' = [sc EXCEPT ![p].game = kind]
    /\ pc' = [pc EXCEPT ![p] = IF kind \in {"error", "noGame"} THEN "done" ELSE "confirm"]
    /\ UNCHANGED <<clock, tokenFile, fileMeta, runs, gt>>

\* A run of one of the other scripts starts: main asks for the id (and the
\* media type, or whether it is a manga) and the fetch function sends its
\* request to the metadata API.
StartOtherScript(p, script, m, manga) ==
    /\ pc[p] \in {"idle", "done", "exited"}
    /\ runs < MaxRuns
    /\ script # "game"
    /\ script = "media" \/ m = 0
    /\ script = "manga" \/ manga
    /\ runs' = runs + 1
    /\ pc' = [pc EXCEPT ![p] = "awaitMetadata"]
    /\ gt' = [gt EXCEPT ![p] = [GtInit EXCEPT !.run = runs + 1]]
    /\ sc' = [sc EXCEPT ![p] = [ScInit EXCEPT
                !.script = script, !.mediaType = m, !.isManga = manga]]
    /\ UNCHANGED <<clock, tokenFile, fileMeta>>

\* Kinds of metadata answers: an item with a cover, an item without cover
\* url, an item lacking a field the transformation reads, a body without
\* item, an HTTP or network error.
MetadataAnswers == {"item", "itemNoCover", "itemBadFields", "noItem", "error"}

\* The metadata answer arrives.  An error, or a body without the item (the
\* prompt's message reads a property of undefined), ends in the catch: the
\* fetch function returns null and main reports it.
MetadataAnswer(p, kind) ==
    /\ pc[p] = "awaitMetadata"
    /\ sc' = [sc EXCEPT ![p].game = kind]
    /\ pc' = [pc EXCEPT ![p] = IF kind \in {"error", "noItem"} THEN "done" ELSE "confirm"]
    /\ UNCHANGED <<clock, tokenFile, fileMeta, runs, gt>>

\* fetchCoverById of add_mangas: without a cover, or on an error (caught,
\* null), the download is skipped.
FetchCoverById(p, found) ==
    /\ pc[p] = "coverLookup"
    /\ pc' = [pc EXCEPT ![p] = IF found THEN "download" ELSE "markdown"]
    /\ UNCHANGED <<clock, tokenFile, fileMeta, runs, gt, sc>>

\* The user answers the confirmation prompt.  Declining exits with status 0;
\* otherwise the fields are transformed and the cover is looked at: a field
\* that is not there throws (null to main, no note), no cover url skips the
\* download, add_mangas asks the cover endpoint first.
Confirm(p, yes) ==
    /\ pc[p] = "confirm"
    /\ IF Declined(yes)
       THEN /\ pc' = [pc EXCEPT ![p] = "exited"]
            /\ sc' = [sc EXCEPT ![p] = [sc[p] EXCEPT
                        !.exitCode = 0,
                        !.answer = IF yes THEN "yes" ELSE "no"]]
       ELSE /\ pc' = [pc EXCEPT ![p] =
                        CASE sc[p].game \in {"gameNoCover", "itemBadFields"} -> "done"
                          [] sc[p].game \in {"gameNoCoverUrl", "itemNoCover"} -> "markdown"
                          [] sc[p].script = "manga" -> "coverLookup"
                          [] OTHER -> "download"]
            /\ sc' = [sc EXCEPT ![p].answer = IF yes THEN "yes" ELSE "no"]
    /\ UNCHANGED <<clock, tokenFile, fileMeta, runs, gt>>

\* downloadImage: the image is fetched and written; any failure is logged
\* and swallowed.
DownloadImage(p, ok) ==
    /\ pc[p] = "download"
    /\ IF ok
       THEN /\ sc' = [sc EXCEPT ![p] = [sc[p] EXCEPT
                        !.cover = "written",
                        !.coverDir = CoverDir(sc[p].script, sc[p].mediaType)]]
            /\ pc' = [pc EXCEPT ![p] = "markdown"]
       ELSE /\ sc' = [sc EXCEPT ![p].cover = "failed"]
            /\ pc' = [pc EXCEPT ![p] = AfterDownloadError]
    /\ UNCHANGED <<clock, tokenFile, fileMeta, runs, gt>>

\* main with the game info: the note is generated and written.
CreateMarkdownFile(p, ok) ==
    /\ pc[p] = "markdown"
    /\ IF ok
       THEN sc' = [sc EXCEPT ![p] = [sc[p] EXCEPT
                    !.note = "written",
                    !.noteDir = NoteDir(sc[p].script, sc[p].mediaType),
                    !.tag = NoteTag(sc[p].script, sc[p].mediaType, sc[p].isManga),
                    !.noteCover = NoteCoverRef]]
       ELSE sc' = [sc EXCEPT ![p].note = "failed"]
    /\ pc' = [pc EXCEPT ![p] = "done"]
    /\ UNCHANGED <<clock, tokenFile, fileMeta, runs, gt>>

Step(p) ==
    \/ StartScript(p)
    \/ \E script \in Scripts, m \in MediaTypes, manga \in BOOLEAN :
            StartOtherScript(p, script, m, manga)
    \/ \E kind \in MetadataAnswers : MetadataAnswer(p, kind)
    \/ \E found \in BOOLEAN : FetchCoverById(p, found)
    \/ GetTokenRead(p)
    \/ FetchNewTokenSend(p)
    \/ \E answer \in Answers : FetchNewTokenAnswer(p, answer)
    \/ GetTokenSave(p)
    \/ FetchGameRequest(p)
    \/ \E kind \in IgdbAnswers : IgdbAnswer(p, kind)
    \/ \E yes \in BOOLEAN : Confirm(p, yes)
    \/ \E ok \in BOOLEAN : DownloadImage(p, ok)
    \/ \E ok \in BOOLEAN : CreateMarkdownFile(p, ok)

Next == Tick \/ \E p \in SeqProcs : Step(p)

Spec == Init /\ [][Next]_vars

\* Two script processes at once, as far as getToken goes: each step of one
\* getToken may fall between the steps of the other.
TokenStep(p) ==
    \/ StartScript(p)
    \/ GetTokenRead(p)
    \/ FetchNewTokenSend(p)
    \/ \E answer \in Answers : FetchNewTokenAnswer(p, answer)
    \/ GetTokenSave(p)

NextConc == Tick \/ \E p \in Procs : TokenStep(p)

SpecConc == Init /\ [][NextConc]_vars

(* ------------------------- vocabulary of the claims -------------------- *)
\* getToken has given its caller an outcome.
Finished(p) == gt[p].result.kind # "pending"
\* The exchange was answered with a failure.
ExchangeFailed(p) == gt[p].status \in {"401", "network"}
\* The read found a record whose expires_at is a number.
SawNumericRecord(p) ==
    /\ gt[p].read
    /\ gt[p].seen.kind = "record"
    /\ gt[p].seen.expires_at.k = "num"
\* The read found a record that is still valid.
SawValidRecord(p) ==
    SawNumericRecord(p) /\ gt[p].seen.expires_at.n > gt[p].nowRead
\* The read found no file, or a record that is no longer valid: its
\* expires_at is a number not greater than the time, or is missing or null.
SawNoValidRecord(p) ==
    /\ gt[p].read
    /\ \/ gt[p].seen.kind = "absent"
       \/ SawNumericRecord(p) /\ gt[p].seen.expires_at.n <= gt[p].nowRead
       \/ gt[p].seen.kind = "record" /\ gt[p].seen.expires_at.k \in {"undef", "null"}

(* -------------------------------- C1 ----------------------------------- *)
\* C1: every token getToken returns, read from a well-formed record or got
\* from a well-formed answer of the endpoint, has an expires_at that is a
\* number strictly greater than the time at which getToken returns.
C1_ReturnedTokenNotExpired ==
    \A p \in Procs :
        (/\ gt[p].result.kind = "value"
         /\ \/ gt[p].hit /\ SawNumericRecord(p) /\ gt[p].seen.access_token.k = "str"
            \/ gt[p].status = "200" /\ WellFormed(gt[p].data))
        => /\ gt[p].expAt.k = "num"
           /\ gt[p].expAt.n * TicksPerSecond > gt[p].retClock

(* -------------------------------- C2 ----------------------------------- *)
\* C2: when the file holds a record whose expires_at is greater than the
\* current time, getToken returns that record's access_token and sends no
\* request to the token endpoint.
C2_ValidRecordIsReturned ==
    \A p \in Procs :
        SawValidRecord(p)
        => /\ gt[p].requests = 0
           /\ gt[p].result = Returned(gt[p].seen.access_token)

C2_Witness ==
    \E p \in Procs :
        /\ pc[p] = "gotToken"
        /\ SawValidRecord(p)
        /\ gt[p].result = Returned(Str("tok1"))

(* -------------------------------- C3 ----------------------------------- *)
\* C3: when the record is absent or no longer valid, getToken sends exactly
\* one exchange request, and the token it then returns is already in the
\* file when it returns.
C3_OneExchangeThenPersist ==
    \A p \in Procs :
        SawNoValidRecord(p)
        => /\ gt[p].requests <= 1
           /\ Finished(p) => gt[p].requests = 1
           /\ (Finished(p) /\ gt[p].status = "200")
              => /\ tokenFile.kind = "record"
                 /\ gt[p].result = Returned(tokenFile.access_token)

C3_Witness ==
    \E p \in Procs :
        /\ pc[p] = "gotToken"
        /\ SawNoValidRecord(p)
        /\ SawNumericRecord(p)
        /\ gt[p].status = "200"
        /\ gt[p].requests = 1
        /\ gt[p].result.v.k = "str"

(* -------------------------------- C4 ----------------------------------- *)
\* C4: after an exchange answered {access_token, expires_in}, the file is
\* exactly {access_token, expires_at = now + expires_in}, whatever it held
\* before, and getToken returns the new access_token.
C4_FileIsNewRecord ==
    \A p \in Procs :
        (Finished(p) /\ gt[p].status = "200" /\ WellFormed(gt[p].data))
        => /\ tokenFile = Record(gt[p].data.access_token,
                                 Num(NowSeconds(gt[p].retClock) + gt[p].data.expires_in.n))
           /\ gt[p].result = Returned(gt[p].data.access_token)

C4_Witness ==
    \E p \in Procs :
        /\ pc[p] = "gotToken"
        /\ gt[p].status = "200"
        /\ WellFormed(gt[p].data)
        /\ gt[p].data.expires_in.n > 0
        /\ gt[p].seen.kind = "record"
        /\ gt[p].seen.access_token.k = "str"
        /\ gt[p].seen.access_token # gt[p].data.access_token
        /\ gt[p].result = Returned(gt[p].data.access_token)

C6_FailureLeavesFile ==
    \A p \in Procs :
        ExchangeFailed(p) => tokenFile = gt[p].seen

C6_Witness ==
    \E p \in Procs :
        /\ pc[p] = "gotToken"
        /\ gt[p].status = "401"
        /\ gt[p].seen.kind = "record"
        /\ gt[p].seen.expires_at.k = "num"
        /\ tokenFile = gt[p].seen

(* -------------------------------- C7 ----------------------------------- *)
\* C7: when the endpoint answers 2xx with a malformed body, getToken raises
\* an error and writes no record from that answer.
C7_MalformedBodyIsAnError ==
    \A p \in Procs :
        (Finished(p) /\ gt[p].status = "200" /\ ~WellFormed(gt[p].data))
        => /\ gt[p].result.kind = "error"
           /\ tokenFile = gt[p].seen

(* -------------------------------- C8 ----------------------------------- *)
\* C8: a record whose expires_at is missing or is not a number is treated
\* as expired: its access_token is not returned, an exchange is made.
C8_NonNumericIsExpired ==
    \A p \in Procs :
        (gt[p].read /\ gt[p].seen.kind = "record" /\ gt[p].seen.expires_at.k # "num")
        => /\ ~gt[p].hit
           /\ Finished(p) => gt[p].requests = 1

(* -------------------------------- C9 ----------------------------------- *)
\* C9: once {access_token: "abc", expires_at: T} is in the file, the next
\* getToken is a hit (returns "abc", no exchange) exactly when T > now; at
\* T = now and T < now it is a miss and goes to the endpoint.
C9_HitIffFuture ==
    \A p \in Procs :
        (SawNumericRecord(p) /\ gt[p].seen.access_token = Str("abc"))
        => /\ gt[p].hit <=> gt[p].seen.expires_at.n > gt[p].nowRead
           /\ gt[p].hit => gt[p].result = Returned(Str("abc")) /\ gt[p].requests = 0
           /\ (~gt[p].hit /\ Finished(p)) => gt[p].requests = 1

C9_Witness ==
    \E p \in Procs :
        /\ SawNumericRecord(p)
        /\ gt[p].seen.access_token = Str("abc")
        /\ gt[p].seen.expires_at.n = gt[p].nowRead
        /\ ~gt[p].hit
        /\ gt[p].requests = 1

(* -------------------------------- C10 ---------------------------------- *)
\* C10: nothing is retried: one getToken sends at most one request to the
\* token endpoint, a failed exchange reaches fetchGameById as the missing
\* token, and fetchGameById then exits without any IGDB request.
C10_NoRetryAndAbort ==
    \A p \in Procs :
        /\ gt[p].requests <= 1
        /\ ExchangeFailed(p)
           => /\ gt[p].requests = 1
              /\ Falsy(gt[p].result.v)
              /\ sc[p].igdbRequests = 0
              /\ pc[p] \in {"gotToken", "exited"}
              /\ pc[p] = "exited" => sc[p].exitCode = 1

C10_Witness ==
    \E p \in Procs :
        /\ pc[p] = "exited"
        /\ sc[p].exitCode = 1
        /\ gt[p].status = "network"
        /\ gt[p].requests = 1
        /\ sc[p].igdbRequests = 0

(* -------------------------------- C11 ---------------------------------- *)
\* C11: a record treated as a hit holds a token whose lifetime, expires_in
\* seconds counted from the exchange that issued it, has not elapsed; also
\* when time passed between the exchange and the computation of expires_at.
C11_HitIsWithinLifetime ==
    \A p \in Procs :
        (/\ gt[p].hit
         /\ SawNumericRecord(p)
         /\ gt[p].seen.access_token.k = "str"
         /\ gt[p].seenMeta.deadline >= 0)
        => gt[p].retClock < gt[p].seenMeta.deadline

(* -------------------------------- C12 ---------------------------------- *)
\* The read found the file absent or its record expired: expires_at not
\* greater than the time, or missing or null (treated as expired).
SawAbsentOrExpired(p) ==
    /\ gt[p].read
    /\ \/ gt[p].seen.kind = "absent"
       \/ /\ gt[p].seen.kind = "record"
          /\ \/ gt[p].seen.expires_at.k \in {"undef", "null"}
             \/ /\ gt[p].seen.expires_at.k \in {"num", "numstr"}
                /\ gt[p].seen.expires_at.n <= gt[p].nowRead

C12_ReadsAndWrites ==
    \A p \in Procs :
        /\ gt[p].reads <= 1
        /\ gt[p].writes <= 1
        /\ gt[p].writes = 1 => SawAbsentOrExpired(p) /\ gt[p].status = "200"
        /\ gt[p].hit => gt[p].writes = 0

C12_FileChange ==
    /\ tokenFile' # tokenFile
       => \E p \in Procs :
            /\ gt[p].read
            /\ ~gt[p].hit
            /\ gt[p].status = "200"
            /\ gt[p].writes = 0
            /\ gt'[p].writes = 1
    /\ \A p \in Procs : (gt'[p].hit /\ ~gt[p].hit) => tokenFile' = tokenFile
    /\ \A p \in Procs : (gt'[p].writes # gt[p].writes /\ gt'[p].writes > 0) => gt[p].read

\* C12: the file is written only by a getToken invocation that found the
\* record absent or expired and whose exchange succeeded; a hit leaves the
\* file as it is; an invocation reads the file at most once and writes it at
\* most once, the read first.
C12_WrittenOnlyOnRefresh == []C12_ReadsAndWrites /\ [][C12_FileChange]_vars

C12_Witness ==
    \E p \in Procs :
        /\ pc[p] = "gotToken"
        /\ SawNumericRecord(p)
        /\ gt[p].reads = 1
        /\ gt[p].writes = 1
        /\ tokenFile # gt[p].seen

(* -------------------------------- C13 ---------------------------------- *)
\* C13: a token that an earlier invocation got with lifetime E and stored is
\* returned, with no exchange, by every later invocation that starts before
\* the stored expiry; an invocation at or after the expiry makes a new
\* exchange.
C13_PersistedTokenIsReused ==
    \A p \in Procs :
        (/\ gt[p].read
         /\ gt[p].seenMeta.writer \in 1..(gt[p].run - 1)
         /\ gt[p].seenMeta.token.k = "str"
         /\ gt[p].seenMeta.expiry >= 0)
        => /\ gt[p].nowRead < gt[p].seenMeta.expiry
              => /\ gt[p].hit
                 /\ gt[p].result = Returned(gt[p].seenMeta.token)
                 /\ gt[p].requests = 0
           /\ gt[p].nowRead >= gt[p].seenMeta.expiry
              => /\ ~gt[p].hit
                 /\ Finished(p) => gt[p].requests = 1

C13_Witness ==
    \E p \in Procs :
        /\ pc[p] = "gotToken"
        /\ gt[p].run = 2
        /\ gt[p].seenMeta.writer = 1
        /\ gt[p].seenMeta.expiry > gt[p].nowRead
        /\ gt[p].hit
        /\ gt[p].result = Returned(Str("abc"))
        /\ gt[p].requests = 0

C13_WitnessRefresh ==
    \E p \in Procs :
        /\ pc[p] = "gotToken"
        /\ gt[p].run = 2
        /\ gt[p].seenMeta.writer = 1
        /\ gt[p].seenMeta.expiry > 0
        /\ gt[p].seenMeta.expiry <= gt[p].nowRead
        /\ gt[p].requests = 1

(* -------------------------------- C14 ---------------------------------- *)
\* C14: no IGDB request is sent while getToken runs; fetchGameById sends it
\* only once getToken has returned a token, with the Authorization header
\* 'Bearer <that token>'.
C14_IgdbAfterToken ==
    \A p \in Procs :
        /\ sc[p].igdbRequests <= 1
        /\ pc[p] \in {"getToken", "exchange", "awaitExchange", "save", "gotToken"}
           => sc[p].igdbRequests = 0
        /\ sc[p].igdbRequests = 1
           => /\ gt[p].result.kind = "value"
              /\ gt[p].result.v.k = "str"
              /\ gt[p].result.v.t # ""
              /\ sc[p].auth = Str("Bearer " \o gt[p].result.v.t)

C14_Witness ==
    \E p \in Procs :
        /\ pc[p] = "awaitIgdb"
        /\ sc[p].igdbRequests = 1
        /\ gt[p].result = Returned(Str("abc"))
        /\ sc[p].auth = Str("Bearer abc")

(* -------------------------------- C15 ---------------------------------- *)
\* C15: every script fetches, asks for confirmation, transforms and writes,
\* in that order: no cover and no note is written before the prompt is
\* answered, and when the user declines the process exits with status 0
\* having written neither.
C15_ConfirmBeforeWrite ==
    \A p \in Procs :
        /\ sc[p].answer # "none"
           => sc[p].game \in {"game", "gameNoCoverUrl", "gameNoCover",
                              "item", "itemNoCover", "itemBadFields"}
        /\ (sc[p].cover # "none" \/ sc[p].note # "none" \/ pc[p] \in {"download", "markdown"})
           => sc[p].answer = "yes"
        /\ pc[p] = "download" => sc[p].note = "none"
        /\ sc[p].answer = "no"
           => /\ pc[p] = "exited"
              /\ sc[p].exitCode = 0
              /\ sc[p].cover = "none"
              /\ sc[p].note = "none"

C15_Witness ==
    \E p \in Procs :
        /\ sc[p].script = "book"
        /\ sc[p].answer = "no"
        /\ pc[p] = "exited"
        /\ sc[p].exitCode = 0

C15_WitnessWritten ==
    \E p \in Procs :
        /\ sc[p].script = "media"
        /\ sc[p].answer = "yes"
        /\ sc[p].cover = "written"
        /\ sc[p].note = "written"

(* -------------------------------- C18 ---------------------------------- *)
\* The media kind a directory or tag of add_series_movies belongs to.
KindOf(name) ==
    CASE name \in {"../Attachments/movie_covers", "../Library/Movies", "movie"} -> "movie"
      [] name \in {"../Attachments/serie_covers", "../Library/Series", "serie"} -> "serie"
      [] name \in {"../Attachments/anime_covers", "../Library/Animes", "anime"} -> "anime"
      [] OTHER -> "other"

\* C18: in add_series_movies, whatever media type is entered, the cover
\* directory, the note directory and the tag belong to the same media kind.
C18_SameMediaKind ==
    \A p \in Procs :
        (sc[p].script = "media" /\ sc[p].cover = "written" /\ sc[p].note = "written")
        => /\ KindOf(sc[p].coverDir) = KindOf(sc[p].tag)
           /\ KindOf(sc[p].noteDir) = KindOf(sc[p].tag)

(* -------------------------------- C19 ---------------------------------- *)
\* C19: a failed download or save of the cover does not abort a script: the
\* note is written all the same and refers to the cover file; a failed
\* metadata fetch leaves no cover and no note.
C19_CoverFailureKeepsNote ==
    \A p \in Procs :
        /\ sc[p].cover = "failed"
           => /\ pc[p] \in {"markdown", "done"}
              /\ sc[p].exitCode = -1
              /\ pc[p] = "done" => sc[p].note \in {"written", "failed"}
              /\ sc[p].note = "written" => sc[p].noteCover = "slug.jpg"
        /\ sc[p].game = "error"
           => /\ pc[p] = "done"
              /\ sc[p].cover = "none"
              /\ sc[p].note = "none"

C19_Witness ==
    \E p \in Procs :
        /\ sc[p].script = "game"
        /\ sc[p].cover = "failed"
        /\ pc[p] = "done"
        /\ sc[p].note = "written"
        /\ sc[p].noteCover = "slug.jpg"

C19_WitnessFetchFailed ==
    \E p \in Procs :
        /\ sc[p].script = "book"
        /\ sc[p].game = "error"
        /\ pc[p] = "done"

(* -------------------------------- C17 ---------------------------------- *)
C17_NullWithoutExchange ==
    \A p \in Procs :
        (gt[p].read /\ gt[p].seen.kind = "corrupt")
        => /\ gt[p].result = Returned(Null)
           /\ gt[p].requests = 0
           /\ gt[p].status = "none"
           /\ gt[p].writes = 0
           /\ tokenFile = CorruptFile

C17_StaysUnparseable == tokenFile = CorruptFile => tokenFile' = CorruptFile

\* C17: when the file exists but does not parse, getToken returns null,
\* sends no exchange request and leaves the file as it is, so that every
\* later invocation ends the same way for as long as the file stays.
C17_UnparseableFile == []C17_NullWithoutExchange /\ [][C17_StaysUnparseable]_vars

C17_Witness ==
    \E p \in Procs :
        /\ gt[p].run = 2
        /\ gt[p].seen.kind = "corrupt"
        /\ pc[p] = "exited"
        /\ sc[p].exitCode = 1
        /\ gt[p].result = Returned(Null)
        /\ gt[p].requests = 0

(* -------------------------------- C16 ---------------------------------- *)
\* Both invocations found the record absent or expired, got a well-formed
\* answer each and have returned.
BothRefreshed ==
    \A p \in Procs :
        /\ SawAbsentOrExpired(p)
        /\ gt[p].status = "200"
        /\ WellFormed(gt[p].data)
        /\ Finished(p)

\* Each invocation made its own exchange and returned its token; the file
\* is the whole record of one of them.
C16_OwnTokenWholeRecord ==
    BothRefreshed
    => /\ \A p \in Procs :
            /\ gt[p].requests = 1
            /\ gt[p].result = Returned(gt[p].data.access_token)
       /\ \E p \in Procs :
            /\ tokenFile = Record(gt[p].data.access_token, gt[p].expAt)
            /\ fileMeta.writer = gt[p].run

\* No read from now on can be a hit on a token whose lifetime has elapsed.
NoLaterExpiredHit ==
    \/ tokenFile.expires_at.n * TicksPerSecond <= fileMeta.deadline
    \/ tokenFile.expires_at.n * TicksPerSecond <= clock

\* C16: when two getToken invocations interleave on an absent or expired
\* record, each makes its own exchange and returns its own token, and the
\* file then holds the whole record of one of them: no mix of the two, and
\* no record on which a later hit returns an expired token.
C16_InterleavedRefresh ==
    BothRefreshed => C16_OwnTokenWholeRecord /\ NoLaterExpiredHit

C16_Witness ==
    /\ BothRefreshed
    /\ gt[1].seen = gt[2].seen
    /\ gt[1].data.access_token # gt[2].data.access_token
    /\ gt[1].expAt # gt[2].expAt
    /\ fileMeta.writer = gt[1].run
    /\ gt[1].run = 1

====
